---- MODULE Spec2Model ----
(***************************************************************************)
(* Model of src/main.py: the user directory service (FastAPI handlers over *)
(* the dictionary db) and the URL shortener service (Flask handlers over   *)
(* the dictionary url_store).  The two services share no state, so each    *)
(* has its own next-state relation and specification.                      *)
(***************************************************************************)
EXTENDS Integers, Sequences, FiniteSets, TLC

VARIABLES
    db,         \* main.py:11   user_id -> User
    nextId,     \* the ids uuid4() has handed out so far are 1 .. nextId-1
    last,       \* the latest request of the user service and its outcome
    returned,   \* history: id -> the record the latest create/update returned
    deleted,    \* history: the ids a delete_user call has removed
    url_store,  \* main.py:98   code -> {url, clicks, created_at}
    ulast,      \* the latest answer of the shortener (with the request it
                \* answers, when requests are handled one at a time)
    hits,       \* history: code -> redirects completed on the stored record
    nShortened, \* history: number of shorten calls that returned a code
    replaced,   \* history: some shorten call overwrote an existing record
    pc,         \* per request thread: the line it is about to execute
    loc         \* per request thread: its local variables

vars     == <<db, nextId, last, returned, deleted,
              url_store, ulast, hits, nShortened, replaced, pc, loc>>

-----------------------------------------------------------------------------
(* Bounds of the model.                                                    *)

MaxUsers == 2
CodeLen == 1
MaxClicks == 2
MaxShortens == 2

-----------------------------------------------------------------------------
(* Python / JSON values: a tagged text.  Str(<<>>) is the empty string,    *)
(* None is null, Unset marks a field the request body does not carry.      *)

Str(s) == [t |-> "str", s |-> s]
Num(s) == [t |-> "int", s |-> s]
None   == [t |-> "None", s |-> <<>>]
Unset  == [t |-> "unset", s |-> <<>>]

IsStr(v) == v.t = "str"

\* bool(v) as Python's `not v` sees it
Truthy(v) ==
    CASE v.t = "str"  -> v.s # <<>>
      [] v.t = "int"  -> v.s # <<"0">>
      [] OTHER        -> FALSE

\* str.lower() on the letters the model uses
LowerChar(c) ==
    CASE c = "A" -> "a"
      [] c = "B" -> "b"
      [] c = "X" -> "x"
      [] OTHER   -> c

Lower(s) == [i \in 1..Len(s) |-> LowerChar(s[i])]

\* needle in hay, on strings
Contains(hay, needle) ==
    \E i \in 0..(Len(hay) - Len(needle)) :
        SubSeq(hay, i + 1, i + Len(needle)) = needle

\* s.startswith(p)
StartsWith(s, p) == Len(s) >= Len(p) /\ SubSeq(s, 1, Len(p)) = p

-----------------------------------------------------------------------------
(* User directory service, main.py:8-83                                    *)

RawEmails == { <<"a", "@", "X">>, <<"a", "x">> }
Passwords == { <<"p">>, <<"q">> }
Queries   == { <<"a">>, <<"B", "O">>, <<"z">> }

\* path parameters: every id uuid4 may hand out, and 0 which it never does
UserIds == 0..MaxUsers

\* EmailStr: one "@" with text on both sides ...
AtPos(e) == { i \in 1..Len(e) : e[i] = "@" }
ValidEmail(e) ==
    /\ Cardinality(AtPos(e)) = 1
    /\ \A i \in AtPos(e) : 1 < i /\ i < Len(e)

\* ... and the value the handler receives has its domain part in lower case
EmailStr(e) ==
    LET at == CHOOSE i \in AtPos(e) : TRUE
    IN  [i \in 1..Len(e) |-> IF i > at THEN LowerChar(e[i]) ELSE e[i]]

NoReq  == [name |-> Unset, email |-> Unset, password |-> Unset]
NoBody == <<>>

\* POST /users bodies a client may send
CreateBodies ==
    [name     : {Str(<<"A", "l">>), None},
     email    : {Str(e) : e \in RawEmails},
     password : {Str(<<"p">>)}]

\* PUT /user/{id} bodies: a field is absent (Unset), null or a string
UpdateBodies ==
    [name     : {Str(<<"b", "o">>), None, Unset},
     email    : {Str(<<"b", "@", "X">>), Str(<<"a", "x">>), Unset},
     password : {Str(<<"q">>), Unset}]

\* POST /login bodies
LoginBodies ==
    [email    : {Str(e) : e \in RawEmails} \cup {Str(<<"b", "@", "x">>)},
     password : {Str(p) : p \in Passwords}]

\* required fields: name: str, email: EmailStr, password: str
CreateUserRequestOk(b) ==
    /\ IsStr(b.name) /\ IsStr(b.password)
    /\ IsStr(b.email) /\ ValidEmail(b.email.s)

\* the request object the handler sees
Validated(b) ==
    [b EXCEPT !.email = IF IsStr(@) THEN Str(EmailStr(@.s)) ELSE @]

\* fields with default None: a string that is supplied must be well formed
UpdateUserRequestOk(b) ==
    IsStr(b.email) => ValidEmail(b.email.s)

HasNull(b) == None \in {b.name, b.email, b.password}

LoginRequestOk(b) == IsStr(b.email) /\ ValidEmail(b.email.s) /\ IsStr(b.password)

\* list(db.values()): a dict keeps insertion order, and ids are inserted in
\* the order they are handed out
RECURSIVE ValuesFrom(_, _)
ValuesFrom(d, i) ==
    IF i > MaxUsers THEN <<>>
    ELSE IF i \in DOMAIN d THEN <<d[i]>> \o ValuesFrom(d, i + 1)
    ELSE ValuesFrom(d, i + 1)

Values(d) == ValuesFrom(d, 1)

Result(op, id, req, status, body) ==
    [op |-> op, id |-> id, req |-> req, status |-> status, body |-> body]

UnchangedUrl == UNCHANGED <<url_store, ulast, hits, nShortened, replaced, pc, loc>>

\* main.py:38-40
get_users ==
    /\ last' = Result("get_users", 0, NoReq, 200, Values(db))
    /\ UNCHANGED <<db, nextId, returned, deleted>>
    /\ UnchangedUrl

\* main.py:42-47
get_user(user_id) ==
    /\ last' = IF user_id \notin DOMAIN db
               THEN Result("get_user", user_id, NoReq, 404, NoBody)
               ELSE Result("get_user", user_id, NoReq, 200, db[user_id])
    /\ UNCHANGED <<db, nextId, returned, deleted>>
    /\ UnchangedUrl

\* main.py:49-54; a body that fails CreateUserRequest never reaches the handler
create_user(body) ==
    IF ~CreateUserRequestOk(body)
    THEN /\ last' = Result("create_user", 0, NoReq, 422, NoBody)
         /\ UNCHANGED <<db, nextId, returned, deleted>>
         /\ UnchangedUrl
    ELSE /\ nextId <= MaxUsers
         /\ LET req     == Validated(body)
                user_id == nextId
                user    == [id |-> user_id, name |-> req.name,
                            email |-> req.email, password |-> req.password]
            IN  /\ db' = [i \in DOMAIN db \cup {user_id} |->
                             IF i = user_id THEN user ELSE db[i]]
                /\ returned' = [i \in DOMAIN returned \cup {user_id} |->
                                   IF i = user_id THEN user ELSE returned[i]]
                /\ last' = Result("create_user", user_id, req, 201, user)
         /\ nextId' = nextId + 1
         /\ UNCHANGED deleted
         /\ UnchangedUrl

\* the slip req.dict() without exclude_unset: absent fields arrive as None
CopyUpdateAllFields(user, req) ==
    [id       |-> user.id,
     name     |-> IF req.name = Unset THEN None ELSE req.name,
     email    |-> IF req.email = Unset THEN None ELSE req.email,
     password |-> IF req.password = Unset THEN None ELSE req.password]

\* user.copy(update=req.dict(exclude_unset=True)), main.py:61-62
CopyUpdate(user, req) ==
    [id       |-> user.id,
     name     |-> IF req.name = Unset THEN user.name ELSE req.name,
     email    |-> IF req.email = Unset THEN user.email ELSE req.email,
     password |-> IF req.password = Unset THEN user.password ELSE req.password]

\* the slip of returning the copy without storing it (no db[user_id] = ...)
update_user_not_stored(user_id, req) ==
    IF user_id \notin DOMAIN db
    THEN /\ last' = Result("update_user", user_id, NoReq, 404, NoBody)
         /\ UNCHANGED <<db, nextId, returned, deleted>>
    ELSE LET updated_user == CopyUpdate(db[user_id], req)
         IN  /\ returned' = [returned EXCEPT ![user_id] = updated_user]
             /\ last' = Result("update_user", user_id, req, 200, updated_user)
             /\ UNCHANGED <<db, nextId, deleted>>

\* main.py:56-64
update_user(user_id, req) ==
    IF user_id \notin DOMAIN db
    THEN /\ last' = Result("update_user", user_id, NoReq, 404, NoBody)
         /\ UNCHANGED <<db, nextId, returned, deleted>>
    ELSE LET updated_user == CopyUpdate(db[user_id], req)
         IN  /\ db' = [db EXCEPT ![user_id] = updated_user]
             /\ returned' = [returned EXCEPT ![user_id] = updated_user]
             /\ last' = Result("update_user", user_id, req, 200, updated_user)
             /\ UNCHANGED <<nextId, deleted>>

\* PUT /user/{user_id}: UpdateUserRequest (main.py:25-28) validates the body
\* first.  Whether a field sent as null passes depends on the pydantic in
\* use: a str field with default None admits null in one major version and
\* refuses it in the other, so both outcomes are possible.
put_user(user_id, body) ==
    /\ UnchangedUrl
    /\ \/ /\ UpdateUserRequestOk(body)
          /\ update_user(user_id, Validated(body))
       \/ /\ ~UpdateUserRequestOk(body) \/ HasNull(body)
          /\ last' = Result("update_user", user_id, NoReq, 422, NoBody)
          /\ UNCHANGED <<db, nextId, returned, deleted>>

\* the slip of answering 204 without the del db[user_id]
delete_user_kept(user_id) ==
    /\ IF user_id \notin DOMAIN db
       THEN /\ last' = Result("delete_user", user_id, NoReq, 404, NoBody)
            /\ UNCHANGED <<db, returned, deleted>>
       ELSE /\ deleted' = deleted \cup {user_id}
            /\ returned' = [i \in DOMAIN returned \ {user_id} |-> returned[i]]
            /\ last' = Result("delete_user", user_id, NoReq, 204, NoBody)
            /\ UNCHANGED db
    /\ UNCHANGED nextId
    /\ UnchangedUrl

\* main.py:66-71
delete_user(user_id) ==
    /\ IF user_id \notin DOMAIN db
       THEN /\ last' = Result("delete_user", user_id, NoReq, 404, NoBody)
            /\ UNCHANGED <<db, returned, deleted>>
       ELSE /\ db' = [i \in DOMAIN db \ {user_id} |-> db[i]]
            /\ returned' = [i \in DOMAIN returned \ {user_id} |-> returned[i]]
            /\ deleted' = deleted \cup {user_id}
            /\ last' = Result("delete_user", user_id, NoReq, 204, NoBody)
    /\ UNCHANGED nextId
    /\ UnchangedUrl

\* the list comprehension of main.py:75 over a sequence of records;
\* "error" stands for the AttributeError of None.lower()
RECURSIVE SearchResults(_, _)
SearchResults(users, name) ==
    IF users = <<>> THEN <<>>
    ELSE IF ~IsStr(Head(users).name) THEN "error"
    ELSE LET rest == SearchResults(Tail(users), name)
         IN  IF rest = "error" THEN "error"
             ELSE IF Contains(Lower(Head(users).name.s), Lower(name))
                  THEN <<Head(users)>> \o rest
                  ELSE rest

\* main.py:73-76
search_users(name) ==
    /\ LET results == SearchResults(Values(db), name)
       IN  last' = IF results = "error"
                   THEN Result("search_users", 0, NoReq, 500, NoBody)
                   ELSE Result("search_users", 0, NoReq, 200, results)
    /\ UNCHANGED <<db, nextId, returned, deleted>>
    /\ UnchangedUrl

\* the slip of `or` for `and` in the comparison of main.py:81
RECURSIVE LoginScanEither(_, _)
LoginScanEither(users, req) ==
    IF users = <<>> THEN FALSE
    ELSE IF Head(users).email = req.email \/ Head(users).password = req.password
         THEN TRUE
         ELSE LoginScanEither(Tail(users), req)

\* the loop of main.py:80-82 over a sequence of records
RECURSIVE LoginScan(_, _)
LoginScan(users, req) ==
    IF users = <<>> THEN FALSE
    ELSE IF Head(users).email = req.email /\ Head(users).password = req.password
         THEN TRUE
         ELSE LoginScan(Tail(users), req)

LoginOk      == [message |-> "Login successful"]
LoginRefused == [detail |-> "Invalid credentials"]

\* main.py:78-83
login(body) ==
    /\ IF ~LoginRequestOk(body)
       THEN last' = Result("login", 0, NoReq, 422, NoBody)
       ELSE LET req == [NoReq EXCEPT !.email = Str(EmailStr(body.email.s)),
                                     !.password = body.password]
            IN  last' = IF LoginScan(Values(db), req)
                        THEN Result("login", 0, req, 200, LoginOk)
                        ELSE Result("login", 0, req, 401, LoginRefused)
    /\ UNCHANGED <<db, nextId, returned, deleted>>
    /\ UnchangedUrl

UserNext ==
    \/ get_users
    \/ \E id \in UserIds : get_user(id)
    \/ \E b \in CreateBodies : create_user(b)
    \/ \E id \in UserIds, b \in UpdateBodies : put_user(id, b)
    \/ \E id \in UserIds : delete_user(id)
    \/ \E q \in Queries : search_users(q)
    \/ \E b \in LoginBodies : login(b)

-----------------------------------------------------------------------------
(* URL shortener service, main.py:92-136                                   *)

\* string.ascii_letters + string.digits, cut down to two letters
Alphabet == {"a", "Z"}

\* main.py:101-102: every string random.choices may produce.  The handler
\* calls it with the default length, which the model bounds by CodeLen.
generate_code(length) == [1..length -> Alphabet]

Codes == generate_code(CodeLen)

\* path parameters: every code of the keyspace and one outside it
PathCodes == Codes \cup { <<"-">> }

Http == <<"h", "t", "t", "p">>

\* what request.get_json() may hand to the handler: null, or an object whose
\* "url" is absent (Unset), null, a number or a string
ShortenBodies ==
    { [kind |-> "null", url |-> Unset] } \cup
    [kind : {"object"},
     url  : { Unset, None, Num(<<"0">>), Num(<<"7">>), Str(<<>>),
              Str(<<"n", "o">>), Str(<<"h", "t", "t">>),
              Str(Http \o <<"a">>), Str(Http \o <<"s">>) }]

\* datetime.utcnow(): the instants a call may read
Instants == {"T0"}

\* datetime.isoformat()
isoformat(t) == <<"iso", t>>

\* main.py:110-113.  "raise" is the AttributeError of None.get or of
\* .startswith on a value that is not a string.
ShortenCheck(body) ==
    IF body.kind # "object" THEN "raise"
    ELSE LET url == IF body.url = Unset THEN None ELSE body.url
         IN  IF ~Truthy(url) THEN "invalid"
             ELSE IF ~IsStr(url) THEN "raise"
             ELSE IF ~StartsWith(url.s, Http) THEN "invalid"
             ELSE "ok"

Reply(op, code, req, status, body) ==
    [op |-> op, code |-> code, req |-> req, status |-> status, body |-> body]

NoShorten == [kind |-> "none", url |-> Unset]

ShortenRefused(body) ==
    IF ShortenCheck(body) = "raise"
    THEN Reply("shorten", <<>>, body, 500, [error |-> "Internal Server Error"])
    ELSE Reply("shorten", <<>>, body, 400, [error |-> "Invalid URL"])

\* main.py:118
ShortenReply(code, body) ==
    Reply("shorten", code, body, 200,
          [short_code |-> code, short_url |-> <<"http://localhost:5000/">> \o code])

\* main.py:117   url_store[code] = {...}
StoreRecord(store, code, url, now) ==
    [c \in DOMAIN store \cup {code} |->
        IF c = code THEN [url |-> url, clicks |-> 0, created_at |-> now]
        ELSE store[c]]

\* the slip of counting the click on every record
CountClickOnAll(store, code, clicks) ==
    [c \in DOMAIN store |-> [store[c] EXCEPT !.clicks = clicks + 1]]

\* main.py:124   the store half of url_store[code]["clicks"] += 1
CountClick(store, code, clicks) ==
    [store EXCEPT ![code].clicks = clicks + 1]

UnchangedUser == UNCHANGED <<db, nextId, last, returned, deleted>>

(* One request at a time: each handler runs from entry to return.          *)

\* main.py:108-118; the loop of 115-116 ends with a code that is not stored
shorten(body) ==
    /\ IF ShortenCheck(body) # "ok"
       THEN /\ ulast' = ShortenRefused(body)
            /\ UNCHANGED <<url_store, hits, nShortened, replaced>>
       ELSE \E code \in generate_code(CodeLen), now \in Instants :
              /\ code \notin DOMAIN url_store
              /\ url_store' = StoreRecord(url_store, code, body.url.s, now)
              /\ hits' = [c \in DOMAIN hits \cup {code} |->
                             IF c = code THEN 0 ELSE hits[c]]
              /\ nShortened' = nShortened + 1
              /\ ulast' = ShortenReply(code, body)
              /\ UNCHANGED replaced
    /\ UNCHANGED <<pc, loc>>
    /\ UnchangedUser

\* main.py:120-125
redirect_url(code) ==
    /\ IF code \notin DOMAIN url_store
       THEN /\ ulast' = Reply("redirect_url", code, NoShorten, 404,
                              [error |-> "URL not found"])
            /\ UNCHANGED <<url_store, hits>>
       ELSE /\ url_store[code].clicks < MaxClicks
            /\ url_store' = CountClick(url_store, code, url_store[code].clicks)
            /\ hits' = [hits EXCEPT ![code] = @ + 1]
            /\ ulast' = Reply("redirect_url", code, NoShorten, 302,
                              url_store'[code].url)
    /\ UNCHANGED <<nShortened, replaced, pc, loc>>
    /\ UnchangedUser

\* main.py:127-136
StatsReply(store, code) ==
    IF code \notin DOMAIN store
    THEN Reply("stats", code, NoShorten, 404, [error |-> "Short code not found"])
    ELSE LET entry == store[code]
         IN  Reply("stats", code, NoShorten, 200,
                   [url |-> entry.url, clicks |-> entry.clicks,
                    created_at |-> isoformat(entry.created_at)])

stats(code) ==
    /\ ulast' = StatsReply(url_store, code)
    /\ UNCHANGED <<url_store, hits, nShortened, replaced, pc, loc>>
    /\ UnchangedUser

UrlNext ==
    \/ \E b \in ShortenBodies : shorten(b)
    \/ \E c \in PathCodes : redirect_url(c)
    \/ \E c \in PathCodes : stats(c)

-----------------------------------------------------------------------------
(* Requests handled by concurrent threads: a handler is a sequence of      *)
(* steps, one per access to url_store, and the steps of different threads  *)
(* interleave.  Nothing in main.py locks url_store.                        *)

Threads == {"t1", "t2"}

NoLoc == [url |-> <<>>, code |-> <<>>, clicks |-> 0,
          orphan |-> FALSE, retried |-> FALSE]

\* requests inside shorten / inside the increment of redirect_url(code)
InShorten == { t \in Threads : pc[t] \in {"while", "store"} }
InRedirect(code) ==
    { t \in Threads : pc[t] \in {"read", "write"} /\ loc[t].code = code }

\* main.py:110-114: validate, then the first generate_code()
ShortenBegin(t, body) ==
    /\ pc[t] = "idle"
    /\ IF ShortenCheck(body) # "ok"
       THEN /\ ulast' = [ShortenRefused(body) EXCEPT !.req = NoShorten]
            /\ UNCHANGED <<pc, loc>>
       ELSE /\ nShortened + Cardinality(InShorten) < MaxShortens
            /\ \E code \in generate_code(CodeLen) :
                 loc' = [loc EXCEPT ![t] = [NoLoc EXCEPT !.url = body.url.s,
                                                         !.code = code]]
            /\ pc' = [pc EXCEPT ![t] = "while"]
            /\ UNCHANGED ulast
    /\ UNCHANGED <<url_store, hits, nShortened, replaced>>
    /\ UnchangedUser

\* the slip of a loop body that does not draw a new code
ShortenRetrySame(t, code) ==
    /\ pc[t] = "while"
    /\ loc[t].code \in DOMAIN url_store
    /\ loc' = [loc EXCEPT ![t].code = loc[t].code, ![t].retried = TRUE]
    /\ UNCHANGED <<pc, url_store, ulast, hits, nShortened, replaced>>
    /\ UnchangedUser

\* main.py:115-116: the test finds the code stored, generate_code() draws code
ShortenRetry(t, code) ==
    /\ pc[t] = "while"
    /\ loc[t].code \in DOMAIN url_store
    /\ loc' = [loc EXCEPT ![t].code = code, ![t].retried = TRUE]
    /\ UNCHANGED <<pc, url_store, ulast, hits, nShortened, replaced>>
    /\ UnchangedUser

\* main.py:115: the test finds the code not stored, the loop ends
ShortenExit(t) ==
    /\ pc[t] = "while"
    /\ loc[t].code \notin DOMAIN url_store
    /\ pc' = [pc EXCEPT ![t] = "store"]
    /\ UNCHANGED <<loc, url_store, ulast, hits, nShortened, replaced>>
    /\ UnchangedUser

\* main.py:117-118.  A thread that holds the dictionary previously stored
\* under the code (it is between the load and the store of line 124) is left
\* with an object url_store no longer refers to.
ShortenStore(t, now) ==
    /\ pc[t] = "store"
    /\ LET code == loc[t].code
       IN  /\ url_store' = StoreRecord(url_store, code, loc[t].url, now)
           /\ replaced' = (replaced \/ code \in DOMAIN url_store)
           /\ hits' = [c \in DOMAIN hits \cup {code} |->
                          IF c = code THEN 0 ELSE hits[c]]
           /\ ulast' = ShortenReply(code, NoShorten)
           /\ loc' = [u \in Threads |->
                        IF u = t THEN NoLoc
                        ELSE IF pc[u] = "write" /\ loc[u].code = code
                             THEN [loc[u] EXCEPT !.orphan = TRUE]
                             ELSE loc[u]]
    /\ nShortened' = nShortened + 1
    /\ pc' = [pc EXCEPT ![t] = "idle"]
    /\ UnchangedUser

\* main.py:122-123
RedirectBegin(t, code) ==
    /\ pc[t] = "idle"
    /\ IF code \notin DOMAIN url_store
       THEN /\ ulast' = Reply("redirect_url", code, NoShorten, 404,
                              [error |-> "URL not found"])
            /\ UNCHANGED <<pc, loc>>
       ELSE /\ hits[code] + Cardinality(InRedirect(code)) < MaxClicks
            /\ pc' = [pc EXCEPT ![t] = "read"]
            /\ loc' = [loc EXCEPT ![t] = [NoLoc EXCEPT !.code = code]]
            /\ UNCHANGED ulast
    /\ UNCHANGED <<url_store, hits, nShortened, replaced>>
    /\ UnchangedUser

\* main.py:124, the load: url_store[code]["clicks"] is read
RedirectRead(t) ==
    /\ pc[t] = "read"
    /\ loc' = [loc EXCEPT ![t].clicks = url_store[loc[t].code].clicks]
    /\ pc' = [pc EXCEPT ![t] = "write"]
    /\ UNCHANGED <<url_store, ulast, hits, nShortened, replaced>>
    /\ UnchangedUser

\* main.py:124, the store: the value read, plus one, is written back into
\* the dictionary the load took it from
RedirectWrite(t) ==
    /\ pc[t] = "write"
    /\ IF loc[t].orphan
       THEN UNCHANGED <<url_store, hits>>
       ELSE /\ url_store' = CountClick(url_store, loc[t].code, loc[t].clicks)
            /\ hits' = [hits EXCEPT ![loc[t].code] = @ + 1]
    /\ pc' = [pc EXCEPT ![t] = "return"]
    /\ UNCHANGED <<loc, ulast, nShortened, replaced>>
    /\ UnchangedUser

\* main.py:125
RedirectReturn(t) ==
    /\ pc[t] = "return"
    /\ ulast' = Reply("redirect_url", loc[t].code, NoShorten, 302,
                      url_store[loc[t].code].url)
    /\ pc' = [pc EXCEPT ![t] = "idle"]
    /\ loc' = [loc EXCEPT ![t] = NoLoc]
    /\ UNCHANGED <<url_store, hits, nShortened, replaced>>
    /\ UnchangedUser

\* main.py:127-136
Stats(t, code) ==
    /\ pc[t] = "idle"
    /\ ulast' = StatsReply(url_store, code)
    /\ UNCHANGED <<url_store, hits, nShortened, replaced, pc, loc>>
    /\ UnchangedUser

ShortenSteps ==
    \/ \E t \in Threads, b \in ShortenBodies : ShortenBegin(t, b)
    \/ \E t \in Threads, c \in Codes : ShortenRetry(t, c)
    \/ \E t \in Threads : ShortenExit(t)
    \/ \E t \in Threads, now \in Instants : ShortenStore(t, now)

ConcNext ==
    \/ ShortenSteps
    \/ \E t \in Threads, c \in PathCodes : RedirectBegin(t, c)
    \/ \E t \in Threads : RedirectRead(t)
    \/ \E t \in Threads : RedirectWrite(t)
    \/ \E t \in Threads : RedirectReturn(t)
    \/ \E t \in Threads, c \in PathCodes : Stats(t, c)

-----------------------------------------------------------------------------
Init ==
    /\ db = <<>>
    /\ nextId = 1
    /\ last = Result("start", 0, NoReq, 0, NoBody)
    /\ returned = <<>>
    /\ deleted = {}
    /\ url_store = <<>>
    /\ ulast = Reply("start", <<>>, NoShorten, 0, <<>>)
    /\ hits = <<>>
    /\ nShortened = 0
    /\ replaced = FALSE
    /\ pc = [t \in Threads |-> "idle"]
    /\ loc = [t \in Threads |-> NoLoc]

Next == UserNext \/ UrlNext

\* both services, one request at a time
Spec == Init /\ [][Next]_vars

\* the shortener, one request at a time
UrlSpec == Init /\ [][UrlNext]_vars

\* the shortener under a threaded server
ConcSpec == Init /\ [][ConcNext]_vars

\* a draw of the loop that produces a code that is not stored
FreeDraw(t) == \E c \in Codes \ DOMAIN url_store : ShortenRetry(t, c)

\* shorten calls under a threaded server: a running thread keeps taking steps,
\* and draws that are repeated for ever, while some code is not stored, do
\* produce a code that is not stored (random.choices is uniform)
FairSpec ==
    /\ Init /\ [][ShortenSteps]_vars
    /\ \A t \in Threads :
         /\ WF_vars(ShortenExit(t))
         /\ WF_vars(\E now \in Instants : ShortenStore(t, now))
         /\ SF_vars(FreeDraw(t))

\* the user directory
UserSpec == Init /\ [][UserNext]_vars

-----------------------------------------------------------------------------
(* Properties of the user directory service, under UserSpec.               *)

Fields == {"name", "email", "password"}

\* C4: a handled update_user(id, req) on a stored id changes exactly the fields
\* of that record that req supplies, keeps its id and every other record; on
\* an absent id it answers 404 and leaves db as it was.
UpdateChangesOnlySupplied ==
    [][ (last'.op = "update_user" /\ last'.status # 422) =>
          IF last'.id \notin DOMAIN db
          THEN last'.status = 404 /\ db' = db
          ELSE /\ last'.status = 200
               /\ DOMAIN db' = DOMAIN db
               /\ \A j \in DOMAIN db \ {last'.id} : db'[j] = db[j]
               /\ db'[last'.id].id = last'.id
               /\ \A f \in Fields :
                     db'[last'.id][f] = IF last'.req[f] = Unset
                                        THEN db[last'.id][f]
                                        ELSE last'.req[f] ]_vars

\* a partial update (name only) of one of two stored users has been handled
UpdateWitness ==
    /\ last.op = "update_user" /\ last.status = 200
    /\ last.req.name = Str(<<"b", "o">>)
    /\ last.req.email = Unset /\ last.req.password = Unset
    /\ Cardinality(DOMAIN db) = 2
    /\ db[last.id].name = Str(<<"b", "o">>)
    /\ db[last.id].email = Str(<<"a", "@", "x">>)

DeleteRemovesForGood ==
    [][ /\ last'.op = "delete_user" =>
              IF last'.id \in DOMAIN db
              THEN /\ last'.status = 204
                   /\ DOMAIN db' = DOMAIN db \ {last'.id}
                   /\ \A j \in DOMAIN db' : db'[j] = db[j]
              ELSE last'.status = 404 /\ db' = db
        /\ ( /\ last'.op \in {"get_user", "update_user", "delete_user"}
             /\ last'.status # 422
             /\ last'.id \in deleted ) =>
              last'.status = 404 /\ db' = db
        /\ deleted' \cap DOMAIN db' = {} ]_vars

\* a second delete of a deleted id was refused while another user is stored
DeleteWitness ==
    /\ last.op = "delete_user" /\ last.status = 404
    /\ last.id \in deleted
    /\ DOMAIN db # {}

\* C7: a handled login succeeds exactly when a stored record has the request's
\* email and password, every refusal is the same 401 answer, and login
\* leaves db unchanged.
LoginIffStoredCredentials ==
    [][ (last'.op = "login" /\ last'.status # 422) =>
          /\ db' = db
          /\ last'.status = 200 <=>
                \E id \in DOMAIN db :
                    /\ db[id].email = last'.req.email
                    /\ db[id].password = last'.req.password
          /\ last'.status = 200 => last'.body = LoginOk
          /\ last'.status # 200 =>
                last'.status = 401 /\ last'.body = LoginRefused ]_vars

\* a login with a stored email and the password it had before an update is
\* refused
LoginWitness ==
    /\ last.op = "login" /\ last.status = 401
    /\ last.req.password = Str(<<"p">>)
    /\ \E id \in DOMAIN db :
          db[id].email = last.req.email /\ db[id].password = Str(<<"q">>)

\* C10: every stored record sits under its own id with a string name, a string
\* password and a valid email, and get_users and search_users never fail.
RecordsWellFormed ==
    /\ \A id \in DOMAIN db :
          /\ db[id].id = id
          /\ IsStr(db[id].name) /\ IsStr(db[id].password)
          /\ IsStr(db[id].email) /\ ValidEmail(db[id].email.s)
    /\ last.op \in {"get_users", "search_users"} => last.status = 200

-----------------------------------------------------------------------------
(* Properties of the shortener with one request at a time, under UrlSpec.  *)

\* C1: for every stored code the click counter, and the clicks that stats
\* reports, equal the number of redirects answered for that code since it was
\* created; no other request changes it.
ClicksCountRedirects ==
    /\ DOMAIN hits = DOMAIN url_store
    /\ \A c \in DOMAIN url_store : url_store[c].clicks = hits[c]
    /\ (ulast.op = "stats" /\ ulast.status = 200) =>
          ulast.body.clicks = hits[ulast.code]
    /\ (ulast.op = "stats" /\ ulast.status = 404) =>
          ulast.code \notin DOMAIN url_store

\* stats reports two clicks for a code redirected twice while a second code,
\* never redirected, is stored
ClicksWitness ==
    /\ ulast.op = "stats" /\ ulast.status = 200
    /\ ulast.body.clicks = 2
    /\ hits[ulast.code] = 2
    /\ \E c \in DOMAIN url_store : c # ulast.code /\ url_store[c].clicks = 0

\* C8: shorten answers 400 and leaves url_store alone unless the body is an
\* object whose url is a non-empty string beginning with "http"; for such a
\* url it adds exactly one record {url, clicks = 0, created_at} under a new
\* code of the full length and answers with that code.
ShortenValidates ==
    [][ ulast'.op = "shorten" =>
          LET b  == ulast'.req
              ok == /\ b.kind = "object"
                    /\ IsStr(b.url)
                    /\ b.url.s # <<>>
                    /\ StartsWith(b.url.s, Http)
              code == ulast'.code
          IN  IF ok
              THEN /\ ulast'.status = 200
                   /\ Len(code) = CodeLen
                   /\ code \notin DOMAIN url_store
                   /\ DOMAIN url_store' = DOMAIN url_store \cup {code}
                   /\ \A c \in DOMAIN url_store : url_store'[c] = url_store[c]
                   /\ url_store'[code].url = b.url.s
                   /\ url_store'[code].clicks = 0
                   /\ url_store'[code].created_at \in Instants
              ELSE ulast'.status = 400 /\ url_store' = url_store ]_vars

-----------------------------------------------------------------------------
(* Properties of the shortener under a threaded server, under ConcSpec.    *)

\* C2: as long as no record was overwritten, a stored code with no redirect
\* between its load and its store has as many clicks as redirects have
\* incremented it: no increment is lost.
NoLostClick ==
    \A c \in DOMAIN url_store :
        (~replaced /\ InRedirect(c) = {}) => url_store[c].clicks = hits[c]

\* C3: no shorten call replaces a stored record, and there are as many stored
\* records as shorten calls that returned a code.
ShortenNeverCollides ==
    /\ ~replaced
    /\ Cardinality(DOMAIN url_store) = nShortened

-----------------------------------------------------------------------------
(* Properties of the retry loop, under FairSpec.                           *)

\* C9: a shorten call in its retry loop while some code of the keyspace is
\* not stored finishes, unless the keyspace fills up meanwhile; and the loop
\* is left only with a code that is not stored when it is tested.
ShortenLoopTerminates ==
    /\ \A t \in Threads :
         (pc[t] = "while" /\ DOMAIN url_store # Codes)
            ~> (pc[t] = "idle" \/ DOMAIN url_store = Codes)
    /\ [][ \A t \in Threads :
             (pc[t] = "while" /\ pc'[t] # "while") =>
                /\ pc'[t] = "store"
                /\ loc'[t].code = loc[t].code
                /\ loc[t].code \notin DOMAIN url_store ]_vars

\* a call has left the loop after at least one collision and a new draw
RetryWitness ==
    \E t \in Threads :
        /\ pc[t] = "store"
        /\ loc[t].retried
        /\ loc[t].code \notin DOMAIN url_store
        /\ url_store # <<>>
====
